---- MODULE Spec2Model ----
(***************************************************************************)
(* Model of the Telegram signal relay bot (bot/telegram-bot.ts).           *)
(*                                                                         *)
(* Texts and identifiers are sequences of one-character strings, so that   *)
(* the regular expressions of the classifier, String.replace, toString    *)
(* and JSON.stringify are computed character by character.                 *)
(***************************************************************************)
EXTENDS Integers, Sequences, FiniteSets, TLC

(***************************************************************************)
(* Characters and the character classes of the regular expressions.        *)
(***************************************************************************)
UpperCase == <<"A", "B", "C", "D", "E", "F", "G", "H", "I", "J", "K", "L", "M", "N", "O", "P", "Q", "R", "S", "T", "U", "V", "W", "X", "Y", "Z">>

LowerCase == <<"a", "b", "c", "d", "e", "f", "g", "h", "i", "j", "k", "l", "m", "n", "o", "p", "q", "r", "s", "t", "u", "v", "w", "x", "y", "z">>

Digits == <<"0", "1", "2", "3", "4", "5", "6", "7", "8", "9">>

Range(s) == {s[k] : k \in DOMAIN s}

\* \d
DigitClass == Range(Digits)

\* \w  ==  [A-Za-z0-9_]
WordClass == Range(UpperCase) \cup Range(LowerCase) \cup DigitClass \cup {"_"}

\* \s (the white space that occurs in the modelled texts)
SpaceClass == {" ", "\n", "\t"}

\* [\d.]
NumClass == DigitClass \cup {"."}

\* the /i flag: two characters match when their canonical forms are equal
\* String.prototype.toLowerCase on the ASCII letters
toLowerCase ==
  [ A |-> "a", B |-> "b", C |-> "c", D |-> "d", E |-> "e", F |-> "f", G |-> "g",
    H |-> "h", I |-> "i", J |-> "j", K |-> "k", L |-> "l", M |-> "m", N |-> "n",
    O |-> "o", P |-> "p", Q |-> "q", R |-> "r", S |-> "s", T |-> "t", U |-> "u",
    V |-> "v", W |-> "w", X |-> "x", Y |-> "y", Z |-> "z" ]

Canonicalize(c) == IF c \in DOMAIN toLowerCase THEN toLowerCase[c] ELSE c

(***************************************************************************)
(* Regular expressions.  A pattern is a sequence of items: a literal       *)
(* character, X* or X+ over a character class.  A regular expression is    *)
(* the set of the patterns its alternations and optional groups expand     *)
(* to; test() succeeds when some pattern matches at some position.         *)
(***************************************************************************)
Lit(w) == [k \in DOMAIN w |-> [t |-> "lit", c |-> w[k], cls |-> {}]]

Star(cls) == << [t |-> "star", c |-> "", cls |-> cls] >>

Plus(cls) == << [t |-> "plus", c |-> "", cls |-> cls] >>

RECURSIVE MatchFrom(_, _, _, _)
MatchFrom(pat, k, text, i) ==
  IF k > Len(pat) THEN TRUE
  ELSE LET item == pat[k]
           here == i <= Len(text)
       IN  CASE item.t = "lit" ->
                  /\ here
                  /\ Canonicalize(text[i]) = Canonicalize(item.c)
                  /\ MatchFrom(pat, k + 1, text, i + 1)
             [] item.t = "star" ->
                  \/ MatchFrom(pat, k + 1, text, i)
                  \/ /\ here
                     /\ text[i] \in item.cls
                     /\ MatchFrom(pat, k, text, i + 1)
             [] item.t = "plus" ->
                  /\ here
                  /\ text[i] \in item.cls
                  /\ \/ MatchFrom(pat, k + 1, text, i + 1)
                     \/ MatchFrom(pat, k, text, i + 1)

\* RegExp.prototype.test without the g flag: a match anywhere in the text
RegexTest(regex, text) ==
  \E pat \in regex : \E i \in 1..(Len(text) + 1) : MatchFrom(pat, 1, text, i)

Colon == Star(SpaceClass) \o Lit(<<":">>) \o Star(SpaceClass)

\* /script\s*:\s*\w+/i
ReScript == { Lit(<<"s", "c", "r", "i", "p", "t">>) \o Colon \o Plus(WordClass) }

\* /position\s*:\s*(BUY|SELL)/i
RePosition ==
  { Lit(<<"p", "o", "s", "i", "t", "i", "o", "n">>) \o Colon \o Lit(side) : side \in {<<"B", "U", "Y">>, <<"S", "E", "L", "L">>} }

\* /enter\s*price\s*:\s*[\d.]+/i
ReEnterPrice ==
  { Lit(<<"e", "n", "t", "e", "r">>) \o Star(SpaceClass) \o Lit(<<"p", "r", "i", "c", "e">>) \o Colon \o Plus(NumClass) }

\* /take\s*profit\s*1\s*:\s*[\d.]+/i
ReTakeProfit1 ==
  { Lit(<<"t", "a", "k", "e">>) \o Star(SpaceClass) \o Lit(<<"p", "r", "o", "f", "i", "t">>) \o Star(SpaceClass)
      \o Lit(<<"1">>) \o Colon \o Plus(NumClass) }

\* /stoploss\s*:\s*[\d.]+/i
ReStoploss == { Lit(<<"s", "t", "o", "p", "l", "o", "s", "s">>) \o Colon \o Plus(NumClass) }

FromSignal(dir) ==
  Star(SpaceClass) \o Lit(<<"f", "r", "o", "m">>) \o Star(SpaceClass) \o Lit(dir)
    \o Star(SpaceClass) \o Lit(<<"s", "i", "g", "n", "a", "l">>)

Directions == {<<"l", "o", "n", "g">>, <<"s", "h", "o", "r", "t">>}

\* /take\s*profit\s*\d+\s*from\s*(long|short)\s*signal/i
ReTpFrom ==
  { Lit(<<"t", "a", "k", "e">>) \o Star(SpaceClass) \o Lit(<<"p", "r", "o", "f", "i", "t">>) \o Star(SpaceClass)
      \o Plus(DigitClass) \o FromSignal(dir) : dir \in Directions }

PriceIn ==
  Lit(<<"p", "r", "i", "c", "e">>) \o Colon \o Plus(NumClass) \o Star(SpaceClass) \o Lit(<<"i", "n">>)
    \o Star(SpaceClass) \o Plus(WordClass)

\* /(?:at\s*)?price\s*:\s*[\d.]+\s*in\s*\w+/i
ReAtPriceIn == { Lit(<<"a", "t">>) \o Star(SpaceClass) \o PriceIn, PriceIn }

\* /hit\s*sl\s*from\s*(long|short)\s*signal/i
ReHitSl ==
  { Lit(<<"h", "i", "t">>) \o Star(SpaceClass) \o Lit(<<"s", "l">>) \o FromSignal(dir) : dir \in Directions }

\* /price\s*:\s*[\d.]+\s*in\s*\w+/i
RePriceIn == { PriceIn }

\* faulty variant: the stoploss test is left out
isNewSignalWithoutStoploss(text) ==
  /\ RegexTest(ReScript, text)
  /\ RegexTest(RePosition, text)
  /\ RegexTest(ReEnterPrice, text)
  /\ RegexTest(ReTakeProfit1, text)

isNewSignal(text) ==
  /\ RegexTest(ReScript, text)
  /\ RegexTest(RePosition, text)
  /\ RegexTest(ReEnterPrice, text)
  /\ RegexTest(ReTakeProfit1, text)
  /\ RegexTest(ReStoploss, text)

isTpUpdate(text) == RegexTest(ReTpFrom, text) /\ RegexTest(ReAtPriceIn, text)

isSlHit(text) == RegexTest(ReHitSl, text) /\ RegexTest(RePriceIn, text)

isValidSignalMessage(text) == isNewSignal(text) \/ isTpUpdate(text) \/ isSlHit(text)

(***************************************************************************)
(* Conversions: Number.prototype.toString, String.prototype.replace with a *)
(* string pattern (first occurrence only), JSON.stringify of the request.  *)
(***************************************************************************)
RECURSIVE NatToString(_)
NatToString(n) ==
  IF n < 10 THEN << Digits[n + 1] >>
  ELSE NatToString(n \div 10) \o << Digits[(n % 10) + 1] >>

toString(n) == IF n < 0 THEN <<"-">> \o NatToString(-n) ELSE NatToString(n)

IndexOf(s, pat) ==
  LET hits == {i \in 1..(Len(s) - Len(pat) + 1) : SubSeq(s, i, i + Len(pat) - 1) = pat}
  IN  IF hits = {} THEN 0 ELSE CHOOSE i \in hits : \A j \in hits : i <= j

replace(s, pat, rep) ==
  LET i == IndexOf(s, pat)
  IN  IF i = 0 THEN s
      ELSE SubSeq(s, 1, i - 1) \o rep \o SubSeq(s, i + Len(pat), Len(s))

\* JSON.stringify of a string value, without the surrounding quotes
JsonEscapeChar(c) ==
  CASE c = "\"" -> <<"\\", "\"">>
    [] c = "\\" -> <<"\\", "\\">>
    [] c = "\n" -> <<"\\", "n">>
    [] c = "\t" -> <<"\\", "t">>
    [] OTHER -> <<c>>

RECURSIVE JsonEscapeRange(_, _, _)
JsonEscapeRange(s, lo, hi) ==
  IF lo > hi THEN <<>>
  ELSE IF lo = hi THEN JsonEscapeChar(s[lo])
  ELSE LET mid == (lo + hi) \div 2
       IN  JsonEscapeRange(s, lo, mid) \o JsonEscapeRange(s, mid + 1, hi)

JsonEscape(s) == JsonEscapeRange(s, 1, Len(s))

BodyPrefix == <<"{", "\"", "m", "e", "s", "s", "a", "g", "e", "\"", ":", "\"">>

BodySuffix == <<"\"", "}">>

\* faulty variant: the text is normalised before it is sent
RequestBodyLowerCased(text) ==
  BodyPrefix \o JsonEscape([k \in DOMAIN text |-> Canonicalize(text[k])]) \o BodySuffix

\* JSON.stringify({ message: text })
RequestBody(text) == BodyPrefix \o JsonEscape(text) \o BodySuffix

(***************************************************************************)
(* Configuration, inbound updates, downstream responses.                   *)
(***************************************************************************)
\* bound: received messages per run of Spec
MaxReceived == 3

\* bound: handlers that may be suspended in their forward call at once
MaxInFlight == 2

\* bound: received messages per run of SpecStats
MaxStatsReceived == 11

\* bound: lines of a text classified under SpecClassifier
MaxLines == 5

\* the period of the summary log line
StatsEvery == 10

NoChat == 0

\* ctx.message.text of a message that has none
NoText == <<>>

\* an empty handler slot
Free == [text |-> <<>>, body |-> <<>>, seq |-> 0]

\* values of TELEGRAM_SOURCE_CHANNEL_ID: unset, or the -100<number> form
SourceChannelIds == { <<>>, toString(-1007) }

\* values of TELEGRAM_BOT_TOKEN: unset, or a token
BotTokens == { <<>>, <<"4", "2", ":", "A", "A", "F">> }

\* the exit code of a process that has not exited
NoExitCode == -1

\* the source chat, the chat -<number>, a private chat
ChatIds == {-1007, -7, 5}

\* forward_from_chat of a message forwarded from a channel
ForwardOrigins == {-1007, -1008}

SignalText == <<"s", "c", "r", "i", "p", "t", " ", ":", " ", "B", "T", "C", "U", "S", "D", "\n", "P", "o", "s", "i", "t", "i", "o", "n", " ", ":", " ", "B", "U", "Y", "\n", "E", "n", "t", "e", "r", " ", "P", "r", "i", "c", "e", " ", ":", " ", "9", "0", "8", "2", "7", ".", "5", "6", "\n", "T", "a", "k", "e", " ", "P", "r", "o", "f", "i", "t", " ", "1", " ", ":", " ", "9", "1", "5", "2", "8", ".", "5", "7", "\n", "S", "t", "o", "p", "l", "o", "s", "s", " ", ":", " ", "8", "9", "6", "5", "9", ".", "2", "2">>

TpUpdateText == <<"P", "o", "s", "i", "t", "i", "o", "n", " ", "S", "t", "a", "t", "u", "s", " ", "\\", " ", "\"", "N", "A", "S", "1", "0", "0", "\"", "\n", "T", "a", "k", "e", " ", "P", "r", "o", "f", "i", "t", " ", "3", " ", "F", "r", "o", "m", " ", "L", "o", "n", "g", " ", "S", "i", "g", "n", "a", "l", "\n", "a", "t", " ", "P", "r", "i", "c", "e", " ", ":", " ", "2", "5", "8", "2", "2", ".", "0", "2", " ", "i", "n", " ", "N", "A", "S", "1", "0", "0">>

ChatterText == <<"H", "e", "l", "l", "o", ",", " ", "c", "h", "e", "c", "k", " ", "o", "u", "t", " ", "t", "h", "i", "s", " ", "l", "i", "n", "k", " ", "h", "t", "t", "p", "s", ":", "/", "/", "e", "x", "a", "m", "p", "l", "e", ".", "c", "o", "m">>

CommandText == <<"/", "t", "e", "s", "t">>

StartCommandText == <<"/", "s", "t", "a", "r", "t">>

StatsCommandText == <<"/", "s", "t", "a", "t", "s">>

\* a new signal as the source channel posts it, between its header and footer
BrandedSignalText ==
  <<"W", "A", "Z", "I", "R", " ", "F", "O", "R", "E", "X", " ", "A", "L", "G", "O", "\n">> \o SignalText \o <<"\n", "A", "n", "y", " ", "i", "n", "q", "u", "i", "r", "i", "e", "s", " ", "D", "m", " ", "@", "w", "a", "z", "i", "r">>

Texts == {SignalText, TpUpdateText, ChatterText, CommandText}

\* texts as they arrive in operation: the posts of the source channel, and the
\* commands users send to the bot
FieldTexts == {BrandedSignalText, CommandText, StartCommandText, StatsCommandText}

\* a Telegram `message` update: text is NoText for a media message
Updates ==
  { u \in [chat : ChatIds, text : Texts \cup {NoText},
           forwardFromChat : ForwardOrigins \cup {NoChat}, forwardDate : BOOLEAN] :
      u.forwardFromChat # NoChat => u.forwardDate }

NoUpdate == [chat |-> NoChat, text |-> NoText, forwardFromChat |-> NoChat, forwardDate |-> FALSE]

\* what the forward call can meet: fetch rejects, response.json() rejects,
\* or a JSON body with or without a status field
Responses ==
  { [fetch |-> "rejected", json |-> "none", status |-> "none"],
    [fetch |-> "resolved", json |-> "malformed", status |-> "none"],
    [fetch |-> "resolved", json |-> "object", status |-> "undefined"],
    [fetch |-> "resolved", json |-> "object", status |-> "success"],
    [fetch |-> "resolved", json |-> "object", status |-> "ignored"],
    [fetch |-> "resolved", json |-> "object", status |-> "error"] }

NoResponse == [fetch |-> "none", json |-> "none", status |-> "none"]

Log(line, args) == [level |-> "log", line |-> line, args |-> args]

Error(line) == [level |-> "error", line |-> line, args |-> <<>>]

VARIABLES
  BOT_TOKEN,           \* configuration, read once at startup
  SOURCE_CHANNEL_ID,   \* configuration, read once at startup
  process,             \* "starting", "polling" after bot.launch(), or "exited"
  exitCode,            \* the exit code of an exited process
  messagesReceived, messagesForwarded, messagesIgnored,
  inflight,            \* slot -> the handler suspended in fetch, or Free
  awaited,             \* slot of the handler the polling loop awaits, 0 if none
  httpRequests,        \* number of fetch calls made
  unreachableSeen,     \* history: some forward call met an unreachable endpoint
  forwardsUnsuccessful, \* history: forward calls that ended without status "success"
  last                 \* history: the last step, its input and what it logged

vars ==
  << BOT_TOKEN, SOURCE_CHANNEL_ID, process, exitCode, messagesReceived, messagesForwarded, messagesIgnored,
     inflight, awaited, httpRequests, unreachableSeen, forwardsUnsuccessful, last >>

Slots == 1..MaxInFlight

Init ==
  /\ BOT_TOKEN \in BotTokens
  /\ SOURCE_CHANNEL_ID \in SourceChannelIds
  /\ process = "starting"
  /\ exitCode = NoExitCode
  /\ messagesReceived = 0
  /\ messagesForwarded = 0
  /\ messagesIgnored = 0
  /\ inflight = [s \in Slots |-> Free]
  /\ awaited = 0
  /\ httpRequests = 0
  /\ unreachableSeen = FALSE
  /\ forwardsUnsuccessful = 0
  /\ last = [op |-> "init", update |-> NoUpdate, slot |-> 0, dispatched |-> FALSE,
             verdict |-> "none", response |-> NoResponse, rejected |-> FALSE,
             logs |-> <<>>]

\* faulty variant: the token is not validated
StartupWithoutValidation ==
  /\ process = "starting"
  /\ process' = "polling"
  /\ last' = [op |-> "startup", update |-> NoUpdate, slot |-> 0, dispatched |-> FALSE,
              verdict |-> "none", response |-> NoResponse, rejected |-> FALSE,
              logs |-> << Log("Starting Freya Trades Signal Bot", <<>>) >>]
  /\ UNCHANGED << BOT_TOKEN, SOURCE_CHANNEL_ID, exitCode, messagesReceived, messagesForwarded,
                  messagesIgnored, inflight, awaited, httpRequests, unreachableSeen,
                  forwardsUnsuccessful >>

\* the module runs from its first line to bot.launch(): without a token it
\* logs an error and exits with code 1, with one it creates and launches the bot
Startup ==
  /\ process = "starting"
  /\ IF BOT_TOKEN = <<>>
       THEN /\ process' = "exited"
            /\ exitCode' = 1
            /\ last' = [op |-> "startup", update |-> NoUpdate, slot |-> 0,
                        dispatched |-> FALSE, verdict |-> "none", response |-> NoResponse,
                        rejected |-> FALSE,
                        logs |-> << Error("TELEGRAM_BOT_TOKEN is required") >>]
       ELSE /\ process' = "polling"
            /\ exitCode' = exitCode
            /\ last' = [op |-> "startup", update |-> NoUpdate, slot |-> 0,
                        dispatched |-> FALSE, verdict |-> "none", response |-> NoResponse,
                        rejected |-> FALSE,
                        logs |-> << Log("Starting Freya Trades Signal Bot", <<>>) >>]
  /\ UNCHANGED << BOT_TOKEN, SOURCE_CHANNEL_ID, messagesReceived, messagesForwarded,
                  messagesIgnored, inflight, awaited, httpRequests, unreachableSeen,
                  forwardsUnsuccessful >>

\* the texts bot.command('start'), bot.command('stats') and bot.command('test')
\* are registered for
Commands == {StartCommandText, StatsCommandText, CommandText}

(***************************************************************************)
(* The middleware chain.  Telegraf runs the handlers in registration       *)
(* order and goes on to the next one only when a handler calls next();     *)
(* none of the handlers takes next.  The text handler is registered first, *)
(* so it takes every message that has a text, forwarded messages and the   *)
(* /start, /stats and /test commands included; the forward_date handler    *)
(* sees the forwarded messages without a text, and no message is left for  *)
(* the command handlers, which come last.                                  *)
(***************************************************************************)
Middleware(u) ==
  IF u.text # NoText THEN "text"
  ELSE IF u.forwardDate THEN "forward_date"
  ELSE IF u.text \in Commands THEN "command"
  ELSE "none"

\* the source-channel check of the text handler: TRUE when the message passes
isFromSourceChannel(src, u) ==
  IF src # <<>>
    THEN LET chatId == toString(u.chat)
         IN  IF chatId # src /\ chatId # replace(src, <<"-", "1", "0", "0">>, <<"-">>)
               THEN LET forwardFrom == u.forwardFromChat
                    IN  ~ ( \/ forwardFrom = NoChat
                            \/ toString(forwardFrom) # replace(src, <<"-", "1", "0", "0">>, <<>>) )
               ELSE TRUE
    ELSE TRUE

\* the verdicts and the request bodies of the texts of Updates, computed once
Known ==
  { [text |-> t, valid |-> isValidSignalMessage(t), body |-> RequestBody(t)] :
      t \in Texts \cup FieldTexts }

IsKnown(text) == \E k \in Known : k.text = text

KnownOf(text) == CHOOSE k \in Known : k.text = text

\* the call isValidSignalMessage(text) of processMessage
Classify(text) ==
  IF IsKnown(text) THEN KnownOf(text).valid ELSE isValidSignalMessage(text)

\* the body of the fetch call of forwardToWebsite(text)
FetchBody(text) == IF IsKnown(text) THEN KnownOf(text).body ELSE RequestBody(text)

\* faulty variant: messagesReceived++ is left out
processMessageStartUncounted(text, received, ignored) ==
  LET valid == Classify(text)
  IN  IF ~valid
        THEN [received |-> received, ignored |-> ignored + 1, valid |-> FALSE,
              forward |-> FALSE,
              logs |-> << Log("Ignored non-signal message", <<ignored + 1>>) >>]
        ELSE [received |-> received, ignored |-> ignored, valid |-> TRUE,
              forward |-> TRUE, logs |-> <<>>]

\* faulty variant: the return after messagesIgnored++ is left out
processMessageStartFallsThrough(text, received, ignored) ==
  LET valid == Classify(text)
  IN  IF ~valid
        THEN [received |-> received + 1, ignored |-> ignored + 1, valid |-> FALSE,
              forward |-> TRUE,
              logs |-> << Log("Ignored non-signal message", <<ignored + 1>>) >>]
        ELSE [received |-> received + 1, ignored |-> ignored, valid |-> TRUE,
              forward |-> TRUE, logs |-> <<>>]

\* faulty variant: the classifier keeps state between calls, and a match is
\* found on every other call only
processMessageStartStateful(text, received, ignored) ==
  LET valid == Classify(text) /\ received % 2 = 0
  IN  IF ~valid
        THEN [received |-> received + 1, ignored |-> ignored + 1, valid |-> FALSE,
              forward |-> FALSE,
              logs |-> << Log("Ignored non-signal message", <<ignored + 1>>) >>]
        ELSE [received |-> received + 1, ignored |-> ignored, valid |-> TRUE,
              forward |-> TRUE, logs |-> <<>>]

\* processMessage up to its return or its await: the counters, the verdict of
\* the classifier, and whether it goes on to forwardToWebsite
processMessageStart(text, received, ignored) ==
  LET valid == Classify(text)
  IN  IF ~valid
        THEN [received |-> received + 1, ignored |-> ignored + 1, valid |-> FALSE,
              forward |-> FALSE,
              logs |-> << Log("Ignored non-signal message", <<ignored + 1>>) >>]
        ELSE [received |-> received + 1, ignored |-> ignored, valid |-> TRUE,
              forward |-> TRUE, logs |-> <<>>]

\* faulty variant: the status "ignored" is taken for a success
forwardToWebsiteIgnoredAsSuccess(response) ==
  IF response.fetch = "rejected" \/ response.json = "malformed"
    THEN [success |-> FALSE, threw |-> FALSE,
          logs |-> << Error("Failed to forward message") >>]
  ELSE IF response.status = "success" \/ response.status = "ignored"
    THEN [success |-> TRUE, threw |-> FALSE, logs |-> << Log("Signal forwarded", <<>>) >>]
  ELSE [success |-> FALSE, threw |-> FALSE, logs |-> << Error("API error") >>]

\* faulty variant: no try/catch around fetch and response.json()
forwardToWebsiteWithoutCatch(response) ==
  IF response.fetch = "rejected" \/ response.json = "malformed"
    THEN [success |-> FALSE, threw |-> TRUE, logs |-> <<>>]
  ELSE IF response.status = "success"
    THEN [success |-> TRUE, threw |-> FALSE, logs |-> << Log("Signal forwarded", <<>>) >>]
  ELSE IF response.status = "ignored"
    THEN [success |-> FALSE, threw |-> FALSE,
          logs |-> << Log("Message ignored by parser", <<>>) >>]
  ELSE [success |-> FALSE, threw |-> FALSE, logs |-> << Error("API error") >>]

\* forwardToWebsite after its fetch: the result, and whether it threw
forwardToWebsite(response) ==
  IF response.fetch = "rejected" \/ response.json = "malformed"
    THEN [success |-> FALSE, threw |-> FALSE,
          logs |-> << Error("Failed to forward message") >>]
  ELSE IF response.status = "success"
    THEN [success |-> TRUE, threw |-> FALSE, logs |-> << Log("Signal forwarded", <<>>) >>]
  ELSE IF response.status = "ignored"
    THEN [success |-> FALSE, threw |-> FALSE,
          logs |-> << Log("Message ignored by parser", <<>>) >>]
  ELSE [success |-> FALSE, threw |-> FALSE, logs |-> << Error("API error") >>]

\* faulty variant: a failed forward takes the forwarded counter back by one
processMessageFinishLowersOnFailure(success, received, forwarded, ignored) ==
  LET f == IF success THEN forwarded + 1 ELSE forwarded - 1
  IN  [forwarded |-> f,
       logs |-> IF received % StatsEvery = 0
                  THEN << Log("Stats", <<received, f, ignored>>) >>
                  ELSE <<>>]

\* faulty variant: the forwarded counter is incremented whatever the outcome
processMessageFinishCountsEveryOutcome(success, received, forwarded, ignored) ==
  LET f == forwarded + 1
  IN  [forwarded |-> f,
       logs |-> IF received % StatsEvery = 0
                  THEN << Log("Stats", <<received, f, ignored>>) >>
                  ELSE <<>>]

\* processMessage after its await
processMessageFinish(success, received, forwarded, ignored) ==
  LET f == IF success THEN forwarded + 1 ELSE forwarded
  IN  [forwarded |-> f,
       logs |-> IF received % StatsEvery = 0
                  THEN << Log("Stats", <<received, f, ignored>>) >>
                  ELSE <<>>]

FreeSlot == CHOOSE s \in Slots : inflight[s] = Free /\ \A q \in Slots : inflight[q] = Free => s <= q

\* processMessage(ctx, text), run by handler op for update u until it returns or suspends
processMessage(op, u) ==
  \E start \in {processMessageStart(u.text, messagesReceived, messagesIgnored)} :
  LET slot == FreeSlot
  IN  /\ messagesReceived' = start.received
      /\ messagesIgnored' = start.ignored
      /\ UNCHANGED <<messagesForwarded, unreachableSeen, forwardsUnsuccessful>>
      /\ IF start.forward
           THEN /\ inflight' = [inflight EXCEPT ![slot] =
                                  [text |-> u.text, body |-> FetchBody(u.text),
                                   seq |-> start.received]]
                /\ awaited' = slot
                /\ httpRequests' = httpRequests + 1
           ELSE UNCHANGED <<inflight, awaited, httpRequests>>
      /\ last' = [op |-> op, update |-> u, slot |-> IF start.forward THEN slot ELSE 0,
                  dispatched |-> TRUE,
                  verdict |-> IF start.valid THEN "match" ELSE "reject", response |-> NoResponse,
                  rejected |-> FALSE, logs |-> start.logs]

Skip(op, u) ==
  /\ UNCHANGED << messagesReceived, messagesForwarded, messagesIgnored, inflight, awaited,
                  httpRequests, unreachableSeen, forwardsUnsuccessful >>
  /\ last' = [op |-> op, update |-> u, slot |-> 0, dispatched |-> FALSE,
              verdict |-> "none", response |-> NoResponse, rejected |-> FALSE,
              logs |-> <<>>]

\* the polling loop hands over the next update when it awaits no handler;
\* the model stops at limit received messages and MaxInFlight suspended handlers
CanDeliver(limit) ==
  /\ process = "polling"
  /\ awaited = 0
  /\ messagesReceived < limit
  /\ {s \in Slots : inflight[s] = Free} # {}

\* bot.on(message('text'), ...)
TextHandler(u) ==
  /\ Middleware(u) = "text"
  /\ UNCHANGED <<BOT_TOKEN, SOURCE_CHANNEL_ID, process, exitCode>>
  /\ IF isFromSourceChannel(SOURCE_CHANNEL_ID, u)
       THEN processMessage("text", u)
       ELSE Skip("text", u)

\* bot.on(message('forward_date'), ...)
ForwardDateHandler(u) ==
  /\ Middleware(u) = "forward_date"
  /\ UNCHANGED <<BOT_TOKEN, SOURCE_CHANNEL_ID, process, exitCode>>
  /\ IF u.text # NoText
       THEN processMessage("forward_date", u)
       ELSE Skip("forward_date", u)

\* the forward call of the handler in slot s ends with response r, and the
\* handler runs to its end
Response(s, r) ==
  /\ inflight[s] # Free
  /\ \E fw \in {forwardToWebsite(r)} :
     LET fin == processMessageFinish(fw.success, messagesReceived, messagesForwarded,
                                     messagesIgnored)
         caught == fw.threw /\ awaited = s
     IN  /\ messagesForwarded' = IF fw.threw THEN messagesForwarded ELSE fin.forwarded
         /\ last' = [op |-> "response",
                     update |-> [NoUpdate EXCEPT !.text = inflight[s].text],
                     slot |-> s, dispatched |-> FALSE, verdict |-> "none",
                     response |-> r, rejected |-> fw.threw,
                     logs |-> fw.logs \o (IF fw.threw THEN <<>> ELSE fin.logs)
                                \o (IF caught THEN << Error("Bot error") >> ELSE <<>>)]
  /\ inflight' = [inflight EXCEPT ![s] = Free]
  /\ awaited' = IF awaited = s THEN 0 ELSE awaited
  /\ unreachableSeen' = (unreachableSeen \/ r.fetch = "rejected")
  /\ forwardsUnsuccessful' = forwardsUnsuccessful + (IF r.status = "success" THEN 0 ELSE 1)
  /\ UNCHANGED << BOT_TOKEN, SOURCE_CHANNEL_ID, process, exitCode, messagesReceived,
                  messagesIgnored, httpRequests >>

\* Telegraf stops awaiting a handler after handlerTimeout (90 s by default, and
\* fetch is given no shorter timeout), reports the timeout to bot.catch and
\* goes on with the next update; the handler stays suspended in its fetch
HandlerTimeout ==
  /\ awaited # 0
  /\ awaited' = 0
  /\ last' = [op |-> "timeout", update |-> NoUpdate, slot |-> awaited,
              dispatched |-> FALSE, verdict |-> "none", response |-> NoResponse,
              rejected |-> FALSE, logs |-> << Error("Bot error") >>]
  /\ UNCHANGED << BOT_TOKEN, SOURCE_CHANNEL_ID, process, exitCode, messagesReceived,
                  messagesForwarded, messagesIgnored, inflight, httpRequests,
                  unreachableSeen, forwardsUnsuccessful >>

Next ==
  \/ Startup
  \/ CanDeliver(MaxReceived) /\ \E u \in Updates : TextHandler(u)
  \/ CanDeliver(MaxReceived) /\ \E u \in Updates : ForwardDateHandler(u)
  \/ \E s \in Slots, r \in Responses : Response(s, r)
  \/ HandlerTimeout

Spec == Init /\ [][Next]_vars

(***************************************************************************)
(* SpecStats: messages of the source chat only, enough of them for the     *)
(* summary line that is due every StatsEvery received messages.            *)
(***************************************************************************)
StatsUpdates ==
  { [chat |-> -1007, text |-> t, forwardFromChat |-> NoChat, forwardDate |-> FALSE] :
      t \in {SignalText, ChatterText} }

StatsResponses == {r \in Responses : r.fetch = "rejected" \/ r.status = "success"}

NextStats ==
  \/ Startup
  \/ CanDeliver(MaxStatsReceived) /\ \E u \in StatsUpdates : TextHandler(u)
  \/ \E s \in Slots, r \in StatsResponses : Response(s, r)
  \/ HandlerTimeout

SpecStats == Init /\ [][NextStats]_vars

(***************************************************************************)
(* SpecSourceChat: the text messages of the source chat, each text any     *)
(* number of times.                                                        *)
(***************************************************************************)
SourceChatUpdates ==
  { [chat |-> -1007, text |-> t, forwardFromChat |-> NoChat, forwardDate |-> FALSE] :
      t \in Texts }

NextSourceChat ==
  \/ Startup
  \/ CanDeliver(MaxReceived) /\ \E u \in SourceChatUpdates : TextHandler(u)
  \/ \E s \in Slots, r \in Responses : Response(s, r)
  \/ HandlerTimeout

SpecSourceChat == Init /\ [][NextSourceChat]_vars

(***************************************************************************)
(* SpecField: text messages as they arrive in operation, in the source     *)
(* chat, in the chat -<number> and in a private chat.                      *)
(***************************************************************************)
FieldUpdates ==
  { [chat |-> c, text |-> t, forwardFromChat |-> NoChat, forwardDate |-> FALSE] :
      c \in ChatIds, t \in FieldTexts }

NextField ==
  \/ Startup
  \/ CanDeliver(MaxReceived) /\ \E u \in FieldUpdates : TextHandler(u)
  \/ \E s \in Slots, r \in Responses : Response(s, r)
  \/ HandlerTimeout

SpecField == Init /\ [][NextField]_vars

(***************************************************************************)
(* SpecClassifier: one message whose text is put together from lines, well *)
(* formed and not, of the three message formats.                           *)
(***************************************************************************)
Fragments ==
  << <<"s", "c", "r", "i", "p", "t", " ", ":", " ", "B", "T", "C", "U", "S", "D">>,
     <<"P", "o", "s", "i", "t", "i", "o", "n", " ", " ", " ", " ", " ", " ", " ", " ", ":", " ", "B", "U", "Y">>,
     <<"p", "o", "s", "i", "t", "i", "o", "n", ":", "s", "e", "l", "l">>,
     <<"P", "o", "s", "i", "t", "i", "o", "n", " ", ":", " ", "H", "O", "L", "D">>,
     <<"E", "n", "t", "e", "r", " ", "P", "r", "i", "c", "e", " ", ":", " ", "9", "0", "8", "2", "7", ".", "5", "6">>,
     <<"T", "a", "k", "e", " ", "P", "r", "o", "f", "i", "t", " ", "1", " ", ":", " ", "9", "1", "5", "2", "8", ".", "5", "7">>,
     <<"T", "a", "k", "e", " ", "P", "r", "o", "f", "i", "t", " ", "2", " ", ":", " ", "9", "1", "9", "9", "5", ".", "9", "0">>,
     <<"S", "t", "o", "p", "l", "o", "s", "s", " ", ":", " ", "8", "9", "6", "5", "9", ".", "2", "2">>,
     <<"T", "a", "k", "e", " ", "P", "r", "o", "f", "i", "t", " ", "3", " ", "F", "r", "o", "m", " ", "L", "o", "n", "g", " ", "S", "i", "g", "n", "a", "l">>,
     <<"a", "t", " ", "P", "r", "i", "c", "e", " ", ":", " ", "2", "5", "8", "2", "2", ".", "0", "2", " ", "i", "n", " ", "N", "A", "S", "1", "0", "0">>,
     <<"H", "i", "t", " ", "S", "L", " ", "F", "r", "o", "m", " ", "S", "h", "o", "r", "t", " ", "S", "i", "g", "n", "a", "l">>,
     <<"P", "r", "i", "c", "e", " ", ":", " ", "4", "2", "4", "9", ".", "1", "3", " ", "i", "n", " ", "X", "A", "U", "U", "S", "D">>,
     <<"P", "r", "i", "c", "e", " ", ":", " ", "4", "2", "4", "9", ".", "1", "3">>,
     <<"t", "a", "k", "e", "p", "r", "o", "f", "i", "t", "1", ":", ".", "5">> >>

RECURSIVE JoinLines(_, _)
JoinLines(S, k) ==
  IF k > Len(Fragments) THEN <<>>
  ELSE (IF k \in S THEN Fragments[k] \o <<"\n">> ELSE <<>>) \o JoinLines(S, k + 1)

ClassifierTexts ==
  { JoinLines(S, 1) :
      S \in {S \in SUBSET DOMAIN Fragments : Cardinality(S) \in 1..MaxLines} }

ClassifierUpdates ==
  { [chat |-> -1007, text |-> t, forwardFromChat |-> NoChat, forwardDate |-> FALSE] :
      t \in ClassifierTexts }

InitClassifier == Init /\ SOURCE_CHANNEL_ID = <<>>

NextClassifier ==
  \/ Startup
  \/ CanDeliver(1) /\ \E u \in ClassifierUpdates : TextHandler(u)

SpecClassifier == InitClassifier /\ [][NextClassifier]_vars

(***************************************************************************)
(* What the downstream endpoint reads: the message field of the body.      *)
(***************************************************************************)
\* the character at i is the second of an escape pair: an odd number of
\* backslashes stands right before it
IsEscaped(s, i) ==
  LET run == {n \in 1..(i - 1) : \A j \in (i - n)..(i - 1) : s[j] = "\\"}
  IN  Cardinality(run) % 2 = 1

JsonUnescapeAt(s, i) ==
  IF IsEscaped(s, i)
    THEN << CASE s[i] = "n" -> "\n" [] s[i] = "t" -> "\t" [] OTHER -> s[i] >>
  ELSE IF s[i] = "\\" THEN <<>>
  ELSE << s[i] >>

RECURSIVE JsonUnescapeRange(_, _, _)
JsonUnescapeRange(s, lo, hi) ==
  IF lo > hi THEN <<>>
  ELSE IF lo = hi THEN JsonUnescapeAt(s, lo)
  ELSE LET mid == (lo + hi) \div 2
       IN  JsonUnescapeRange(s, lo, mid) \o JsonUnescapeRange(s, mid + 1, hi)

IsMessageBody(body) ==
  /\ Len(body) >= Len(BodyPrefix) + Len(BodySuffix)
  /\ SubSeq(body, 1, Len(BodyPrefix)) = BodyPrefix
  /\ SubSeq(body, Len(body) - Len(BodySuffix) + 1, Len(body)) = BodySuffix

\* JSON.parse(body).message
JsonMessageOf(body) ==
  LET s == SubSeq(body, Len(BodyPrefix) + 1, Len(body) - Len(BodySuffix))
  IN  JsonUnescapeRange(s, 1, Len(s))

\* the same for the bodies of the texts of Updates, computed once
KnownMessages == { [body |-> k.body, message |-> JsonMessageOf(k.body)] : k \in Known }

ReadBack(body) ==
  IF \E m \in KnownMessages : m.body = body
    THEN (CHOOSE m \in KnownMessages : m.body = body).message
    ELSE JsonMessageOf(body)

InFlight == {s \in Slots : inflight[s] # Free}

ErrorLines(logs) == {k \in DOMAIN logs : logs[k].level = "error"}

\* the summary lines among logs that carry the counters r, f, i
SummaryLines(logs, r, f, i) == {k \in DOMAIN logs : logs[k] = Log("Stats", <<r, f, i>>)}

Counters == <<messagesReceived, messagesForwarded, messagesIgnored>>

(***************************************************************************)
(* C1.  forwarded + ignored <= received in every reachable state, also     *)
(* while forward calls are in flight.                                      *)
(***************************************************************************)
C1_ForwardedPlusIgnoredAtMostReceived ==
  messagesForwarded + messagesIgnored <= messagesReceived

C1_Witness ==
  /\ messagesForwarded >= 1
  /\ messagesIgnored >= 1
  /\ InFlight # {}

(***************************************************************************)
(* C2.  With a source-channel restriction configured, a text message whose *)
(* chat is not the configured one and which is not forwarded from the      *)
(* configured channel is discarded: no classifier, no forwarder, and the   *)
(* three counters unchanged.                                               *)
(***************************************************************************)
C2_MismatchDiscarded ==
  [][ ( /\ last'.op = "text"
        /\ SOURCE_CHANNEL_ID # <<>>
        /\ toString(last'.update.chat) # SOURCE_CHANNEL_ID
        /\ \/ last'.update.forwardFromChat = NoChat
           \/ toString(last'.update.forwardFromChat) # SOURCE_CHANNEL_ID )
      => ( /\ ~last'.dispatched
           /\ last'.verdict = "none"
           /\ UNCHANGED <<Counters, httpRequests, inflight>> ) ]_vars

(***************************************************************************)
(* C3.  With a source-channel restriction configured, a text message       *)
(* forwarded from the configured channel is dispatched, whatever chat it   *)
(* arrives in, and received increases by exactly one.                      *)
(***************************************************************************)
C3_ForwardedFromSourceDispatched ==
  [][ ( /\ last'.op = "text"
        /\ SOURCE_CHANNEL_ID # <<>>
        /\ last'.update.forwardFromChat # NoChat
        /\ toString(last'.update.forwardFromChat) = SOURCE_CHANNEL_ID )
      => ( /\ last'.dispatched
           /\ messagesReceived' = messagesReceived + 1 ) ]_vars

(***************************************************************************)
(* C4.  A dispatched message the classifier rejects increments ignored by  *)
(* one, leaves forwarded unchanged and makes no forward call.              *)
(***************************************************************************)
C4_RejectedIsIgnoredNotForwarded ==
  [][ (last'.dispatched /\ last'.verdict = "reject")
      => ( /\ messagesIgnored' = messagesIgnored + 1
           /\ messagesForwarded' = messagesForwarded
           /\ httpRequests' = httpRequests
           /\ inflight' = inflight ) ]_vars

C4_Witness ==
  /\ last.dispatched
  /\ last.verdict = "reject"
  /\ last.update.text = ChatterText
  /\ messagesIgnored >= 1

(***************************************************************************)
(* C5.  forwarded is incremented, by one, exactly in the step in which the *)
(* forward call of a message that matched the classifier ends with status  *)
(* "success"; no other step changes it; the outcome "ignored" logs no      *)
(* error line.                                                             *)
(***************************************************************************)
C5_ForwardedIffSuccess ==
  [][ LET success == /\ last'.op = "response"
                     /\ last'.response.fetch = "resolved"
                     /\ last'.response.json = "object"
                     /\ last'.response.status = "success"
      IN  /\ success => /\ messagesForwarded' = messagesForwarded + 1
                        /\ Classify(last'.update.text)
          /\ ~success => messagesForwarded' = messagesForwarded
          /\ (last'.op = "response" /\ last'.response.status = "ignored")
               => ErrorLines(last'.logs) = {} ]_vars

C5_Witness ==
  /\ last.op = "response"
  /\ last.response.status = "ignored"
  /\ messagesForwarded >= 1

C7_UnreachableIsHandled ==
  [][ /\ (last'.op = "response" /\ last'.response.fetch = "rejected")
        => ( /\ messagesForwarded' = messagesForwarded
             /\ ~last'.rejected
             /\ \E k \in DOMAIN last'.logs : last'.logs[k] = Error("Failed to forward message")
             /\ \A k \in DOMAIN last'.logs : last'.logs[k] # Error("Bot error")
             /\ inflight'[last'.slot] = Free
             /\ awaited' # last'.slot )
      /\ ( /\ unreachableSeen
           /\ last'.op = "text"
           /\ isFromSourceChannel(SOURCE_CHANNEL_ID, last'.update) )
        => ( /\ messagesReceived' = messagesReceived + 1
             /\ last'.verdict \in {"match", "reject"} ) ]_vars

C7_Witness ==
  /\ unreachableSeen
  /\ last.op = "text"
  /\ last.dispatched

(***************************************************************************)
(* C8.  A dispatched message, matching or not, whose receipt brings        *)
(* received to a multiple of 10 gets exactly one summary line with the     *)
(* three counters during its handling; any other message gets none.        *)
(***************************************************************************)
C8_SummaryEveryTenth ==
  [][ LET due(n) == IF n % StatsEvery = 0 THEN 1 ELSE 0
          summaries ==
            Cardinality(SummaryLines(last'.logs, messagesReceived', messagesForwarded',
                                     messagesIgnored'))
      IN  /\ (last'.dispatched /\ last'.verdict = "reject")
               => summaries = due(messagesReceived')
          /\ (last'.dispatched /\ last'.verdict = "match") => summaries = 0
          /\ last'.op = "response" => summaries = due(inflight[last'.slot].seq) ]_vars

(***************************************************************************)
(* C9.  Events are handled one at a time: at most one handler is in        *)
(* progress, its forward call included, in every reachable state.          *)
(***************************************************************************)
C9_OneHandlerAtATime == Cardinality(InFlight) <= 1

(***************************************************************************)
(* C10.  The three families of the classifier, read off the text: a phrase *)
(* is a row of words, case-insensitive, with any white space (or none)     *)
(* between them; a value is a run of word characters (a token), of digits, *)
(* or of digits and dots (a number).                                       *)
(***************************************************************************)
RECURSIVE RunEnd(_, _, _)
RunEnd(t, i, cls) == IF i <= Len(t) /\ t[i] \in cls THEN RunEnd(t, i + 1, cls) ELSE i

Word(w) == [kind |-> "word", w |-> w, cls |-> {}]

Value(cls) == [kind |-> "value", w |-> <<>>, cls |-> cls]

HasWordAt(t, i, w) ==
  /\ i + Len(w) - 1 <= Len(t)
  /\ \A k \in DOMAIN w : Canonicalize(t[i + k - 1]) = w[k]

RECURSIVE PhraseAt(_, _, _, _)
PhraseAt(t, i, phrase, k) ==
  IF k > Len(phrase) THEN TRUE
  ELSE LET j == IF k = 1 THEN i ELSE RunEnd(t, i, SpaceClass)
           part == phrase[k]
       IN  IF part.kind = "word"
             THEN HasWordAt(t, j, part.w) /\ PhraseAt(t, j + Len(part.w), phrase, k + 1)
             ELSE LET e == RunEnd(t, j, part.cls)
                  IN  e > j /\ PhraseAt(t, e, phrase, k + 1)

Contains(t, phrase) == \E i \in 1..Len(t) : PhraseAt(t, i, phrase, 1)

LabelScript == << Word(<<"s", "c", "r", "i", "p", "t">>), Word(<<":">>), Value(WordClass) >>

LabelPosition(side) == << Word(<<"p", "o", "s", "i", "t", "i", "o", "n">>), Word(<<":">>), Word(side) >>

LabelEnterPrice == << Word(<<"e", "n", "t", "e", "r">>), Word(<<"p", "r", "i", "c", "e">>), Word(<<":">>), Value(NumClass) >>

LabelTakeProfit1 ==
  << Word(<<"t", "a", "k", "e">>), Word(<<"p", "r", "o", "f", "i", "t">>), Word(<<"1">>), Word(<<":">>), Value(NumClass) >>

LabelStoploss == << Word(<<"s", "t", "o", "p", "l", "o", "s", "s">>), Word(<<":">>), Value(NumClass) >>

PhraseTakeProfitFrom(dir) ==
  << Word(<<"t", "a", "k", "e">>), Word(<<"p", "r", "o", "f", "i", "t">>), Value(DigitClass), Word(<<"f", "r", "o", "m">>), Word(dir),
     Word(<<"s", "i", "g", "n", "a", "l">>) >>

PhraseHitSlFrom(dir) ==
  << Word(<<"h", "i", "t">>), Word(<<"s", "l">>), Word(<<"f", "r", "o", "m">>), Word(dir), Word(<<"s", "i", "g", "n", "a", "l">>) >>

PhrasePriceIn ==
  << Word(<<"p", "r", "i", "c", "e">>), Word(<<":">>), Value(NumClass), Word(<<"i", "n">>), Value(WordClass) >>

NewSignalFamily(t) ==
  /\ Contains(t, LabelScript)
  /\ Contains(t, LabelPosition(<<"b", "u", "y">>)) \/ Contains(t, LabelPosition(<<"s", "e", "l", "l">>))
  /\ Contains(t, LabelEnterPrice)
  /\ Contains(t, LabelTakeProfit1)
  /\ Contains(t, LabelStoploss)

TakeProfitUpdateFamily(t) ==
  /\ Contains(t, PhraseTakeProfitFrom(<<"l", "o", "n", "g">>)) \/ Contains(t, PhraseTakeProfitFrom(<<"s", "h", "o", "r", "t">>))
  /\ Contains(t, PhrasePriceIn)

StopLossHitFamily(t) ==
  /\ Contains(t, PhraseHitSlFrom(<<"l", "o", "n", "g">>)) \/ Contains(t, PhraseHitSlFrom(<<"s", "h", "o", "r", "t">>))
  /\ Contains(t, PhrasePriceIn)

\* C10: the classifier matches a dispatched text exactly when one of the three
\* families holds of it (a number being a run of digits and dots)
C10_MatchIffSomeFamily ==
  last.dispatched =>
    ( last.verdict = "match" <=>
        \/ NewSignalFamily(last.update.text)
        \/ TakeProfitUpdateFamily(last.update.text)
        \/ StopLossHitFamily(last.update.text) )

\* rejected: four of the five new-signal labels, stoploss missing, no update family
C10_Witness ==
  /\ last.dispatched
  /\ last.verdict = "reject"
  /\ Contains(last.update.text, LabelScript)
  /\ Contains(last.update.text, LabelPosition(<<"b", "u", "y">>))
  /\ Contains(last.update.text, LabelEnterPrice)
  /\ Contains(last.update.text, LabelTakeProfit1)
  /\ ~Contains(last.update.text, LabelStoploss)

(***************************************************************************)
(* C11.  Without a bot token the process does one thing: it exits with     *)
(* code 1.  It never polls, no handler ever runs (the counters stay 0, no  *)
(* message is dispatched or skipped) and no forward call is made.          *)
(***************************************************************************)
C11_MissingTokenExits ==
  /\ []( BOT_TOKEN = <<>>
          => ( /\ process \in {"starting", "exited"}
               /\ process = "starting" => exitCode = NoExitCode
               /\ process = "exited" => exitCode = 1
               /\ last.op \in {"init", "startup"}
               /\ Counters = <<0, 0, 0>>
               /\ httpRequests = 0
               /\ InFlight = {} ) )
  /\ [][ BOT_TOKEN = <<>> => (process' = "exited" /\ exitCode' = 1) ]_vars

C11_Witness ==
  /\ BOT_TOKEN = <<>>
  /\ process = "exited"
  /\ exitCode = 1
  /\ ErrorLines(last.logs) # {}

(***************************************************************************)
(* C12.  No forward call carries the channel's header or footer: the       *)
(* message field of every request in flight contains neither "WAZIR FOREX  *)
(* ALGO" nor "Any inquiries Dm @".                                         *)
(***************************************************************************)
HeaderText == <<"W", "A", "Z", "I", "R", " ", "F", "O", "R", "E", "X", " ", "A", "L", "G", "O">>

FooterText == <<"A", "n", "y", " ", "i", "n", "q", "u", "i", "r", "i", "e", "s", " ", "D", "m", " ", "@">>

Occurs(pat, s) == IndexOf(s, pat) # 0

C12_NoHeaderOrFooterForwarded ==
  \A s \in InFlight :
    /\ ~Occurs(HeaderText, ReadBack(inflight[s].body))
    /\ ~Occurs(FooterText, ReadBack(inflight[s].body))

(***************************************************************************)
(* C13.  The three counters start at 0, are never negative and never       *)
(* decrease: no step of the process (startup, a message, the outcome of a  *)
(* forward call, a timeout) lowers or resets any of them.                  *)
(***************************************************************************)
C13_CountersNeverDecrease ==
  /\ Counters = <<0, 0, 0>>
  /\ [](messagesReceived >= 0 /\ messagesForwarded >= 0 /\ messagesIgnored >= 0)
  /\ [][ /\ messagesReceived' >= messagesReceived
         /\ messagesForwarded' >= messagesForwarded
         /\ messagesIgnored' >= messagesIgnored ]_vars

\* a forward call has just failed with every counter above 0
C13_Witness ==
  /\ last.op = "response"
  /\ ErrorLines(last.logs) # {}
  /\ messagesReceived >= 3
  /\ messagesForwarded >= 1
  /\ messagesIgnored >= 1

(***************************************************************************)
(* C16.  Whenever no handler is suspended in a forward call, received =    *)
(* ignored + forwarded + the number of forward calls that ended without    *)
(* status "success"; while handlers are suspended, each of them accounts   *)
(* for one more received message.                                          *)
(***************************************************************************)
C16_EveryMessageAccountedOnce ==
  /\ InFlight = {}
       => messagesReceived = messagesIgnored + messagesForwarded + forwardsUnsuccessful
  /\ messagesReceived =
       messagesIgnored + messagesForwarded + forwardsUnsuccessful + Cardinality(InFlight)

C16_Witness ==
  /\ InFlight = {}
  /\ messagesIgnored >= 1
  /\ messagesForwarded >= 1
  /\ forwardsUnsuccessful >= 1

(***************************************************************************)
(* C14.  The verdict of the classifier depends on the text alone: once a   *)
(* text has been classified, every later classification of the same text   *)
(* gives the same verdict, whatever the counters have become and whatever  *)
(* was classified, forwarded or ignored in between.                        *)
(***************************************************************************)
Classified(t) == last.dispatched /\ last.update.text = t

C15_CommandsLeaveCountersUnchanged ==
  [][ (last'.op \in {"text", "forward_date"} /\ last'.update.text \in Commands)
      => UNCHANGED Counters ]_vars
====
